---------------------------- MODULE Spec2Model ----------------------------
(***************************************************************************)
(* xssrecon: the Reflection & Filter-Probe Engine.                         *)
(*                                                                         *)
(*   pkg/utils/utils.go      GenerateTargetURLs (target generator)         *)
(*   pkg/scanner (part_000)  Scanner.Scan, processBaseURL,                 *)
(*                           checkSpecialChars, printJSON, DOMScanner      *)
(*   main (README.md)        the worker pool                               *)
(*                                                                         *)
(* Strings are sequences of one-character strings, so that Contains,       *)
(* ReplaceAll, the query parser and the query encoder are computed the     *)
(* way the Go code computes them.                                          *)
(***************************************************************************)
EXTENDS Integers, Sequences, FiniteSets, TLC

(***************************************************************************)
(* strings                                                                 *)
(***************************************************************************)

\* the least element of a non-empty set of integers
MinOf(S) == CHOOSE x \in S : \A y \in S : x <= y

\* t occurs in s at position i (1-based)
HasPrefixAt(s, t, i) ==
    /\ i >= 1
    /\ i + Len(t) - 1 <= Len(s)
    /\ \A k \in 1..Len(t) : s[i + k - 1] = t[k]

\* strings.Index from position i on: the least j >= i where t occurs, 0 if none
IndexFrom(s, t, i) ==
    LET J == {j \in i..(Len(s) - Len(t) + 1) : HasPrefixAt(s, t, j)}
    IN  IF J = {} THEN 0 ELSE MinOf(J)

\* strings.Contains
Contains(s, t) == IndexFrom(s, t, 1) # 0

\* strings.HasPrefix
HasPrefix(s, t) == HasPrefixAt(s, t, 1)

\* strings.Count of a non-empty t
RECURSIVE CountFrom(_, _, _)
CountFrom(s, t, i) ==
    LET j == IndexFrom(s, t, i)
    IN  IF j = 0 THEN 0 ELSE 1 + CountFrom(s, t, j + Len(t))

RECURSIVE ReplaceFrom(_, _, _, _)
ReplaceFrom(s, old, new, i) ==
    LET j == IndexFrom(s, old, i)
    IN  IF j = 0 THEN SubSeq(s, i, Len(s))
        ELSE SubSeq(s, i, j - 1) \o new \o ReplaceFrom(s, old, new, j + Len(old))

\* strings.ReplaceAll of a non-empty old: left to right, non-overlapping
ReplaceAll(s, old, new) == ReplaceFrom(s, old, new, 1)

\* strings.Cut: <<before, after, found>>
Cut(s, sep) ==
    LET j == IndexFrom(s, sep, 1)
    IN  IF j = 0 THEN <<s, <<>>, FALSE>>
        ELSE <<SubSeq(s, 1, j - 1), SubSeq(s, j + Len(sep), Len(s)), TRUE>>

\* strings.Split(s, sep) of a non-empty sep
RECURSIVE Split(_, _)
Split(s, sep) ==
    LET c == Cut(s, sep)
    IN  IF c[3] THEN <<c[1]>> \o Split(c[2], sep) ELSE <<s>>

\* the characters of the model, in byte order (the order sort.Strings compares by);
\* "BACKTICK" stands for the one character U+0060, which a TLA+ string cannot hold
ByteOrder ==
    << " ", "\"", "%", "&", "'", "(", ")", "+", "-", ".", "/",
       "0", "1", "2", "3", "4", "5", "6", "7", "8", "9",
       ":", ";", "<", "=", ">", "?",
       "A", "B", "C", "D", "E", "F",
       "\\", "BACKTICK",
       "a", "b", "c", "d", "e", "f", "g", "h", "i", "j", "k", "l", "m",
       "n", "o", "p", "q", "r", "s", "t", "u", "v", "w", "x", "y", "z",
       "{", "}" >>

Ord(c) == CHOOSE i \in 1..Len(ByteOrder) : ByteOrder[i] = c

\* s < t, bytewise lexicographic
RECURSIVE StrLess(_, _)
StrLess(s, t) ==
    IF t = <<>> THEN FALSE
    ELSE IF s = <<>> THEN TRUE
    ELSE IF s[1] # t[1] THEN Ord(s[1]) < Ord(t[1])
    ELSE StrLess(Tail(s), Tail(t))

\* sort.Strings on a set of distinct strings
RECURSIVE SortStrings(_)
SortStrings(S) ==
    IF S = {} THEN <<>>
    ELSE LET m == CHOOSE x \in S : \A y \in S \ {x} : StrLess(x, y)
         IN  <<m>> \o SortStrings(S \ {m})

\* every order in which the elements of S can be listed once
RECURSIVE Orders(_)
Orders(S) ==
    IF S = {} THEN {<<>>}
    ELSE UNION {{<<x>> \o o : o \in Orders(S \ {x})} : x \in S}

(***************************************************************************)
(* net/url, as far as GenerateTargetURLs uses it.  Modelled for URLs       *)
(* without fragment, userinfo, port or control characters, whose path has  *)
(* no valid percent-escape and whose query uses only the escapes of        *)
(* EscapeTable.                                                            *)
(***************************************************************************)

Letters ==
    { "a", "b", "c", "d", "e", "f", "g", "h", "i", "j", "k", "l", "m",
      "n", "o", "p", "q", "r", "s", "t", "u", "v", "w", "x", "y", "z",
      "A", "B", "C", "D", "E", "F" }

Digits == { "0", "1", "2", "3", "4", "5", "6", "7", "8", "9" }

\* url.ishex
IsHex(c) == c \in Digits \cup { "a", "b", "c", "d", "e", "f", "A", "B", "C", "D", "E", "F" }

\* url.shouldEscape(c, encodeQueryComponent): everything but the unreserved characters
ShouldEscape(c) == c \notin (Letters \cup Digits \cup { "-", ".", "_", "~" })

\* the upper-case %XX form url.escape writes for each character of the model
EscapeTable ==
    [ c \in { "\"", "%", "&", "'", "(", ")", "+", "/", ":", ";", "<", "=", ">", "?",
              "\\", "BACKTICK", "{", "}" } |->
        CASE c = "\"" -> << "%", "2", "2" >>
          [] c = "%"  -> << "%", "2", "5" >>
          [] c = "&"  -> << "%", "2", "6" >>
          [] c = "'"  -> << "%", "2", "7" >>
          [] c = "("  -> << "%", "2", "8" >>
          [] c = ")"  -> << "%", "2", "9" >>
          [] c = "+"  -> << "%", "2", "B" >>
          [] c = "/"  -> << "%", "2", "F" >>
          [] c = ":"  -> << "%", "3", "A" >>
          [] c = ";"  -> << "%", "3", "B" >>
          [] c = "<"  -> << "%", "3", "C" >>
          [] c = "="  -> << "%", "3", "D" >>
          [] c = ">"  -> << "%", "3", "E" >>
          [] c = "?"  -> << "%", "3", "F" >>
          [] c = "\\" -> << "%", "5", "C" >>
          [] c = "BACKTICK" -> << "%", "6", "0" >>
          [] c = "{"  -> << "%", "7", "B" >>
          [] c = "}"  -> << "%", "7", "D" >> ]

\* url.QueryEscape: a space becomes "+", an unreserved character stays, the rest is %XX
RECURSIVE QueryEscape(_)
QueryEscape(s) ==
    IF s = <<>> THEN <<>>
    ELSE (IF s[1] = " " THEN << "+" >>
          ELSE IF ShouldEscape(s[1]) THEN EscapeTable[s[1]]
          ELSE << s[1] >>) \o QueryEscape(Tail(s))

\* the hex digits a-f in upper case (unhex reads both cases alike)
UpperHex(c) ==
    CASE c = "a" -> "A" [] c = "b" -> "B" [] c = "c" -> "C"
      [] c = "d" -> "D" [] c = "e" -> "E" [] c = "f" -> "F"
      [] OTHER -> c

\* the first pass of url.unescape: every "%" is followed by two hex digits
RECURSIVE ValidEscapes(_)
ValidEscapes(s) ==
    IF s = <<>> THEN TRUE
    ELSE IF s[1] = "%"
         THEN /\ Len(s) >= 3
              /\ IsHex(s[2])
              /\ IsHex(s[3])
              /\ ValidEscapes(SubSeq(s, 4, Len(s)))
         ELSE ValidEscapes(Tail(s))

\* the second pass of url.unescape in encodeQueryComponent mode, on a string
\* with valid escapes: %XX is decoded, "+" becomes a space
RECURSIVE Decode(_)
Decode(s) ==
    IF s = <<>> THEN <<>>
    ELSE IF s[1] = "%"
         THEN LET e == << "%", UpperHex(s[2]), UpperHex(s[3]) >>
                  c == CHOOSE x \in DOMAIN EscapeTable : EscapeTable[x] = e
              IN  << c >> \o Decode(SubSeq(s, 4, Len(s)))
         ELSE IF s[1] = "+" THEN << " " >> \o Decode(Tail(s))
         ELSE << s[1] >> \o Decode(Tail(s))

\* url.QueryUnescape
QueryUnescape(s) ==
    IF ValidEscapes(s) THEN [err |-> FALSE, s |-> Decode(s)]
    ELSE [err |-> TRUE, s |-> <<>>]

\* url.parseQuery: the "&"-separated pairs in order, as <<key, value>>; a pair
\* with a semicolon or an invalid escape is dropped, an empty one skipped
RECURSIVE ParsePairs(_)
ParsePairs(parts) ==
    IF parts = <<>> THEN <<>>
    ELSE LET kv == Cut(parts[1], << "=" >>)
             k  == QueryUnescape(kv[1])
             v  == QueryUnescape(kv[2])
         IN  (IF \/ parts[1] = <<>>
                 \/ Contains(parts[1], << ";" >>)
                 \/ k.err
                 \/ v.err
              THEN <<>>
              ELSE << << k.s, v.s >> >>) \o ParsePairs(Tail(parts))

\* the values of key k among the pairs, in order (url.Values[k])
RECURSIVE ValuesOf(_, _)
ValuesOf(pairs, k) ==
    IF pairs = <<>> THEN <<>>
    ELSE (IF pairs[1][1] = k THEN << pairs[1][2] >> ELSE <<>>) \o ValuesOf(Tail(pairs), k)

\* URL.Query(): url.Values, a map from key to the list of its values
Query(rawQuery) ==
    LET pairs == ParsePairs(Split(rawQuery, << "&" >>))
        keys  == { pairs[i][1] : i \in 1..Len(pairs) }
    IN  [ k \in keys |-> ValuesOf(pairs, k) ]

\* "k=v1&k=v2" for one key of url.Values.Encode
RECURSIVE EncodeKey(_, _)
EncodeKey(k, vs) ==
    IF vs = <<>> THEN <<>>
    ELSE QueryEscape(k) \o << "=" >> \o QueryEscape(vs[1])
         \o (IF Len(vs) > 1 THEN << "&" >> \o EncodeKey(k, Tail(vs)) ELSE <<>>)

RECURSIVE EncodeKeys(_, _)
EncodeKeys(v, keys) ==
    IF keys = <<>> THEN <<>>
    ELSE EncodeKey(keys[1], v[keys[1]])
         \o (IF Len(keys) > 1 THEN << "&" >> \o EncodeKeys(v, Tail(keys)) ELSE <<>>)

\* url.Values.Encode: "URL encoded" form, sorted by key
Encode(v) == EncodeKeys(v, SortStrings(DOMAIN v))

\* url.getScheme: <<err, scheme, rest>>
GetScheme(rawURL) ==
    LET stop == { i \in 1..Len(rawURL) :
                    /\ rawURL[i] \notin Letters
                    /\ ~(i > 1 /\ rawURL[i] \in Digits \cup { "+", "-", "." }) }
    IN  IF stop = {} THEN << FALSE, <<>>, rawURL >>
        ELSE LET i == MinOf(stop)
             IN  IF rawURL[i] # ":" THEN << FALSE, <<>>, rawURL >>
                 ELSE IF i = 1 THEN << TRUE, <<>>, <<>> >>
                 ELSE << FALSE, SubSeq(rawURL, 1, i - 1), SubSeq(rawURL, i + 1, Len(rawURL)) >>

NoURL == [err |-> TRUE, Scheme |-> <<>>, Opaque |-> <<>>, Host |-> <<>>,
          Path |-> <<>>, ForceQuery |-> FALSE, RawQuery |-> <<>>]

\* url.Parse
Parse(rawURL) ==
    LET gs     == GetScheme(rawURL)
        scheme == gs[2]
        force  == Len(gs[3]) > 0 /\ gs[3][Len(gs[3])] = "?" /\ CountFrom(gs[3], << "?" >>, 1) = 1
        qc     == Cut(gs[3], << "?" >>)
        rest   == IF force THEN SubSeq(gs[3], 1, Len(gs[3]) - 1) ELSE qc[1]
        rawq   == IF force THEN <<>> ELSE qc[2]
        hasAuth == HasPrefix(rest, << "/", "/" >>)
        auth   == Cut(SubSeq(rest, 3, Len(rest)), << "/" >>)
        path   == IF hasAuth
                  THEN (IF auth[3] THEN << "/" >> \o auth[2] ELSE <<>>)
                  ELSE rest
    IN  IF gs[1] THEN NoURL
        ELSE IF ~HasPrefix(rest, << "/" >>) /\ scheme # <<>>
             THEN [NoURL EXCEPT !.err = FALSE, !.Scheme = scheme, !.Opaque = rest,
                                !.ForceQuery = force, !.RawQuery = rawq]
        ELSE IF ~HasPrefix(rest, << "/" >>) /\ Contains(Cut(rest, << "/" >>)[1], << ":" >>)
             THEN NoURL
        ELSE IF ~ValidEscapes(path) THEN NoURL
        ELSE [err |-> FALSE, Scheme |-> scheme, Opaque |-> <<>>,
              Host |-> IF hasAuth THEN auth[1] ELSE <<>>,
              Path |-> path, ForceQuery |-> force, RawQuery |-> rawq]

\* URL.String
URLString(u) ==
    (IF u.Scheme # <<>> THEN u.Scheme \o << ":" >> ELSE <<>>)
    \o (IF u.Opaque # <<>> THEN u.Opaque
        ELSE (IF u.Host # <<>> THEN << "/", "/" >> \o u.Host ELSE <<>>) \o u.Path)
    \o (IF u.ForceQuery \/ u.RawQuery # <<>> THEN << "?" >> \o u.RawQuery ELSE <<>>)

(***************************************************************************)
(* pkg/utils: GenerateTargetURLs                                           *)
(***************************************************************************)

\* the literal "{payload}"
Placeholder == << "{", "p", "a", "y", "l", "o", "a", "d", "}" >>

\* the literal "rix4uni"
Marker == << "r", "i", "x", "4", "u", "n", "i" >>

ErrNil == "nil"
ErrInvalidURL == "invalid URL"
ErrNoInjection == "no injection points found"

\* utils.go 35-46: the copy of the query in which key carries the payload alone
\* and every other key its original values
NewParams(queryParams, key, payload) ==
    [ k \in DOMAIN queryParams |-> IF k = key THEN << payload >> ELSE queryParams[k] ]

\* utils.go 48-51: the target for one key
TargetFor(u, queryParams, key, payload) ==
    URLString([u EXCEPT !.RawQuery = Encode(NewParams(queryParams, key, payload))])

\* a generator without the placeholder rule (utils.go 15-19 left out)
GenerateNoPlaceholder(inputURL, payload) ==
    LET u == Parse(inputURL)
        queryParams == Query(u.RawQuery)
    IN  IF u.err THEN { [targets |-> <<>>, err |-> ErrInvalidURL] }
        ELSE IF DOMAIN queryParams = {} THEN { [targets |-> <<>>, err |-> ErrNoInjection] }
        ELSE { [targets |-> [ i \in 1..Len(o) |-> TargetFor(u, queryParams, o[i], payload) ],
                err |-> ErrNil] : o \in Orders(DOMAIN queryParams) }

\* a generator that reports a parse failure as a missing injection point
GenerateOneError(inputURL, payload) ==
    IF Contains(inputURL, Placeholder)
    THEN { [targets |-> << ReplaceAll(inputURL, Placeholder, payload) >>, err |-> ErrNil] }
    ELSE { IF r.err = ErrInvalidURL THEN [r EXCEPT !.err = ErrNoInjection] ELSE r :
             r \in GenerateNoPlaceholder(inputURL, payload) }

\* a generator that hands back the URL itself when it finds no injection point
GenerateInputAsTarget(inputURL, payload) ==
    IF Contains(inputURL, Placeholder)
    THEN { [targets |-> << ReplaceAll(inputURL, Placeholder, payload) >>, err |-> ErrNil] }
    ELSE { IF r.err = ErrNoInjection THEN [targets |-> << inputURL >>, err |-> ErrNil] ELSE r :
             r \in GenerateNoPlaceholder(inputURL, payload) }

\* GenerateTargetURLs: the set of results a call can return.  `for key := range
\* queryParams` visits the keys of a Go map, whose iteration order is unspecified,
\* so every order of the keys is a possible result.
GenerateTargetURLs(inputURL, payload) ==
    IF Contains(inputURL, Placeholder)
    THEN { [targets |-> << ReplaceAll(inputURL, Placeholder, payload) >>, err |-> ErrNil] }
    ELSE LET u == Parse(inputURL)
             queryParams == Query(u.RawQuery)
         IN  IF u.err THEN { [targets |-> <<>>, err |-> ErrInvalidURL] }
             ELSE IF DOMAIN queryParams = {}
                  THEN { [targets |-> <<>>, err |-> ErrNoInjection] }
             ELSE { [targets |-> [ i \in 1..Len(o) |->
                                      TargetFor(u, queryParams, o[i], payload) ],
                     err |-> ErrNil] : o \in Orders(DOMAIN queryParams) }

(***************************************************************************)
(* pkg/scanner: the alphabet, the encoding table, the classifier           *)
(***************************************************************************)

specialChars ==
    << "'", "\"", "<", ">", "(", ")", "BACKTICK", "{", "}", "/", "\\", ";" >>

conversions ==
    [ c \in { "'", "\"", "<", ">" } |->
        CASE c = "'"  -> << "&", "#", "0", "3", "9", ";" >>
          [] c = "\"" -> << "&", "q", "u", "o", "t", ";" >>
          [] c = "<"  -> << "&", "l", "t", ";" >>
          [] c = ">"  -> << "&", "g", "t", ";" >> ]

\* how many characters of specialChars the model probes
MaxProbes == 2

\* the probed part of the alphabet: it starts at ">", so that it holds characters
\* with and without an entry in conversions
Alphabet == SubSeq(specialChars, 4, 3 + MaxProbes)

\* fmt.Sprintf("%s ➔ %s", char, conv)
ConvertedEntry(char, conv) == << char, " ", "➔", " " >> \o conv

\* a classifier that tests the encoded form first
ClassifyEncodedFirst(testBody, char) ==
    IF char \in DOMAIN conversions /\ Contains(testBody, Marker \o conversions[char])
    THEN "converted"
    ELSE IF Contains(testBody, Marker \o << char >>) THEN "allowed"
    ELSE "blocked"

\* checkSpecialChars 605-611: the branch taken for one probe body
Classify(testBody, char) ==
    IF Contains(testBody, Marker \o << char >>) THEN "allowed"
    ELSE IF char \in DOMAIN conversions /\ Contains(testBody, Marker \o conversions[char])
    THEN "converted"
    ELSE "blocked"

\* the three lists after a probe that files the character under two verdicts
AppendVerdictTwice(lists, testBody, char) ==
    [ allowed   |-> Append(lists.allowed, char),
      converted |-> lists.converted,
      blocked   |-> Append(lists.blocked, char) ]

\* checkSpecialChars 605-611: the three lists after the probe of char returned testBody
AppendVerdict(lists, testBody, char) ==
    LET v == Classify(testBody, char)
    IN  [ allowed   |-> IF v = "allowed" THEN Append(lists.allowed, char) ELSE lists.allowed,
          converted |-> IF v = "converted"
                        THEN Append(lists.converted, ConvertedEntry(char, conversions[char]))
                        ELSE lists.converted,
          blocked   |-> IF v = "blocked" THEN Append(lists.blocked, char) ELSE lists.blocked ]

\* a channel choice that always probes with the static fetcher
ProbeChannelStatic(reflectedInDOM) == "static"

\* checkSpecialChars 595-599: the channel of every probe of a candidate
ProbeChannel(reflectedInDOM) == IF reflectedInDOM THEN "dom" ELSE "static"

\* a probe loop that ends at the first failed probe
BreakOnProbeError(idx) == Len(Alphabet) + 1

\* a loop that tries the same character again after a failed probe
RetryOnProbeError(idx) == idx

\* checkSpecialChars 601-603: `continue`, the loop goes on with the next character
AfterProbeError(idx) == idx + 1

(***************************************************************************)
(* the program state                                                       *)
(***************************************************************************)

VARIABLES
    opts,      \* scanner.Options, as far as the engine reads them
    mainPc,    \* where main is: "init", "read", "send", "wait", "done"
    line,      \* the line main is sending on the jobs channel
    input,     \* the lines the input can deliver
    nread,     \* the number of lines read from the input so far
    closed,    \* close(jobs) has happened
    wk,        \* per worker: its position and the locals of Scan / processBaseURL /
               \* checkSpecialChars / GetDOM
    session,   \* the one DOMScanner of the Scanner: alive, its contexts are not
               \* cancelled; nav, the worker whose Navigate loaded the page its tab
               \* shows; canStart, whether a browser can be started on this machine;
               \* browser, the browser process ("none", "up", "dead"); owner, the
               \* worker in whose GetDOM call the browser was allocated
    arg,       \* the input of a call of a pure function (GenerateTargetURLs, classify)
    res        \* the result of that call

vars == << opts, mainPc, input, line, nread, closed, wk, session, arg, res >>

\* the largest concurrency level of the model
MaxConcurrency == 2

\* the largest number of input lines of a run
MaxLines == 2

Workers == 1..MaxConcurrency

\* input lines
URLTwoParams == << "h", "t", "t", "p", ":", "/", "/", "x", "/", "?", "b", "=", "1", "&", "a", "=", "2" >>
URLPlaceholder == << "h", "t", "t", "p", ":", "/", "/", "x", "/" >> \o Placeholder
URLNoInjection == << "h", "t", "t", "p", ":", "/", "/", "x", "/", "p" >>
URLBlank == << >>

InputLines == { URLTwoParams, URLPlaceholder, URLNoInjection, URLBlank }

\* the input lines of the runs with several workers
PoolLines == { URLPlaceholder, URLBlank }

\* the bodies a server or a rendered page can answer with: without the marker,
\* with the bare marker, with the marker and a probed character, raw or encoded
Bodies ==
    { << >>, Marker }
    \cup { Marker \o << Alphabet[i] >> : i \in 1..Len(Alphabet) }
    \cup { Marker \o conversions[Alphabet[i]] :
             i \in { j \in 1..Len(Alphabet) : Alphabet[j] \in DOMAIN conversions } }

\* a Go slice: nil, or a list
NilSlice == [nil |-> TRUE, s |-> << >>]
Slice(s) == [nil |-> FALSE, s |-> s]

\* the Count map: nil, or the three counters
NilCount == [nil |-> TRUE, allowed |-> 0, blocked |-> 0, converted |-> 0]
Count(a, b, c) == [nil |-> FALSE, allowed |-> a, blocked |-> b, converted |-> c]

\* the zero JSONOutput of `var output JSONOutput`
ZeroOutput ==
    [ Processing |-> << >>, BaseURL |-> << >>, Reflected |-> FALSE,
      Allowed |-> NilSlice, Blocked |-> NilSlice, Converted |-> NilSlice,
      Count |-> NilCount ]

EmptyLists == [allowed |-> << >>, converted |-> << >>, blocked |-> << >>]

\* a worker goroutine that is not running
NoWorker ==
    [ pc |-> "none", inputURL |-> << >>, baseURLs |-> << >>, baseURL |-> << >>,
      reflectedInDOM |-> FALSE, idx |-> 0, lists |-> EmptyLists, char |-> "",
      testURL |-> << >>,
      target |-> << >>, ret |-> "", docFrom |-> 0, output |-> ZeroOutput,
      out |-> << >>, emitted |-> << >>, reqs |-> << >> ]

NoArg ==
    [ op |-> "none", inputURL |-> << >>, payload |-> << >>, testBody |-> << >>,
      char |-> "", lists |-> EmptyLists, t1 |-> 0, t2 |-> 0, page |-> "" ]

NoRes ==
    [ done |-> FALSE, gen |-> [targets |-> << >>, err |-> ErrNil], lists |-> EmptyLists,
      fetch |-> << >>, render |-> << >>,
      pc |-> "", timer |-> 0, clock |-> 0, left |-> 0, err |-> FALSE ]

\* no DOMScanner yet
NoSession ==
    [ alive |-> FALSE, nav |-> 0, canStart |-> TRUE, browser |-> "none", owner |-> 0 ]

\* main 90-100: the options are set and the scanner is about to be built
InitMain(levels, lines) ==
    /\ opts \in [ Concurrency : levels, JSONOutput : BOOLEAN,
                  Verbose : BOOLEAN, SkipSpecialChar : BOOLEAN ]
    /\ mainPc = "init"
    /\ input = lines
    /\ line = << >>
    /\ nread = 0
    /\ closed = FALSE
    /\ wk = [ w \in Workers |-> NoWorker ]
    /\ session \in { [NoSession EXCEPT !.canStart = c] : c \in BOOLEAN }
    /\ arg = NoArg
    /\ res = NoRes

\* a run with one worker (--concurrency 1) over every kind of input line
Init == InitMain({ 1 }, InputLines)

\* a run with up to MaxConcurrency workers over URLs with one injection point
InitPool == InitMain(1..MaxConcurrency, PoolLines)

(***************************************************************************)
(* main (README.md 102-131)                                                *)
(***************************************************************************)

\* NewDOMScanner 697-722: the allocator and the browser context are made, no
\* browser is started (chromedp starts it in the first Run), the error is nil
NewDOMScanner(s) == [s EXCEPT !.alive = TRUE, !.nav = 0]

\* DOMScanner.Close 724-727: the browser context and the allocator are cancelled,
\* which ends the browser
Close(s) == [s EXCEPT !.alive = FALSE, !.browser = IF @ = "up" THEN "dead" ELSE @]

\* a main that does not wait for its workers
NoWait == TRUE

\* main 131: wg.Wait() returns when every started worker has called wg.Done()
WorkersDone == \A w \in Workers : wk[w].pc \in { "none", "exit" }

\* main 102-122: NewScanner builds the one DOMScanner, the workers are started
Start ==
    /\ mainPc = "init"
    /\ mainPc' = "read"
    /\ session' = NewDOMScanner(session)
    /\ wk' = [ w \in Workers |->
                 IF w <= opts.Concurrency THEN [NoWorker EXCEPT !.pc = "idle"] ELSE NoWorker ]
    /\ UNCHANGED << opts, input, line, nread, closed, arg, res >>

\* main 126-127: sc.Scan() returns a line, main blocks in `jobs <- sc.Text()`
ReadLine ==
    /\ mainPc = "read"
    /\ nread < MaxLines
    /\ \E l \in input : line' = l
    /\ nread' = nread + 1
    /\ mainPc' = "send"
    /\ UNCHANGED << opts, input, closed, wk, session, arg, res >>

\* main 126, 130-131: end of input, close(jobs), then wg.Wait()
CloseJobs ==
    /\ mainPc = "read"
    /\ closed' = TRUE
    /\ mainPc' = "wait"
    /\ UNCHANGED << opts, input, line, nread, wk, session, arg, res >>

\* a channel that hands the line to a receiver and keeps offering it
RecvKeepsLine(w) ==
    /\ mainPc = "send"
    /\ wk[w].pc = "idle"
    /\ wk' = [wk EXCEPT ![w] = [NoWorker EXCEPT !.pc = "scan", !.inputURL = line]]
    /\ UNCHANGED << opts, mainPc, input, line, nread, closed, session, arg, res >>

\* main 118: `for url := range jobs` receives the line main is sending (the
\* channel is unbuffered: send and receive are one step)
Recv(w) ==
    /\ mainPc = "send"
    /\ wk[w].pc = "idle"
    /\ wk' = [wk EXCEPT ![w] = [NoWorker EXCEPT !.pc = "scan", !.inputURL = line]]
    /\ line' = << >>
    /\ mainPc' = "read"
    /\ UNCHANGED << opts, input, nread, closed, session, arg, res >>

\* main 117-121: the range loop ends on the closed channel, wg.Done()
WorkerExit(w) ==
    /\ closed
    /\ wk[w].pc = "idle"
    /\ wk' = [wk EXCEPT ![w].pc = "exit"]
    /\ UNCHANGED << opts, mainPc, input, line, nread, closed, session, arg, res >>

\* main 131, 107: wg.Wait() returns, the deferred s.Close() closes the DOMScanner
MainExit ==
    /\ mainPc = "wait"
    /\ WorkersDone
    /\ mainPc' = "done"
    /\ session' = Close(session)
    /\ UNCHANGED << opts, input, line, nread, closed, wk, arg, res >>

(***************************************************************************)
(* Scanner.Scan, processBaseURL, checkSpecialChars (part_000 488-634)      *)
(***************************************************************************)

\* one printed line, when cond holds
Pr(cond, kind) == IF cond THEN << kind >> ELSE << >>

\* a request of the current candidate: its channel ("static", "dom"), its stage
\* ("base": the reflection check, "probe"), the probed character; ok: it returned
\* without an error; hit: the answer to a reflection check held the marker
Req(ch, kind, char) ==
    [ch |-> ch, kind |-> kind, char |-> char, ok |-> FALSE, hit |-> FALSE]

\* the trace with its last request marked as answered
Answered(reqs) == [reqs EXCEPT ![Len(reqs)].ok = TRUE]

\* the trace with its last request, a reflection check, answered by body
AnsweredBase(reqs, body) ==
    [reqs EXCEPT ![Len(reqs)].ok = TRUE, ![Len(reqs)].hit = Contains(body, Marker)]

\* a printJSON that writes the record as it finds it, nil slices and nil count
\* included
PrintJSONAsIs(output) == IF ~opts.JSONOutput THEN << >> ELSE << output >>

\* printJSON 675-687: nothing outside JSON mode; else the record, nil slices and a
\* nil count written as empty ones
PrintJSON(output) ==
    IF ~opts.JSONOutput THEN << >>
    ELSE << [ output EXCEPT
                !.Allowed = IF @.nil THEN Slice(<< >>) ELSE @,
                !.Blocked = IF @.nil THEN Slice(<< >>) ELSE @,
                !.Converted = IF @.nil THEN Slice(<< >>) ELSE @,
                !.Count = IF @.nil THEN Count(0, 0, 0) ELSE @ ] >>

\* Scan 488-503: the PROCESSING line, the targets for the marker; on an error the
\* verbose line and return
ScanStart(w) ==
    /\ wk[w].pc = "scan"
    /\ \E r \in GenerateTargetURLs(wk[w].inputURL, Marker) :
         wk' = [wk EXCEPT ![w] =
                  IF r.err # ErrNil
                  THEN [NoWorker EXCEPT
                          !.inputURL = wk[w].inputURL,
                          !.out = Pr(~opts.JSONOutput, "PROCESSING")
                                  \o Pr(opts.Verbose, "ERRGEN"),
                          !.pc = "idle"]
                  ELSE [@ EXCEPT !.out = Pr(~opts.JSONOutput, "PROCESSING"),
                                 !.baseURLs = r.targets,
                                 !.pc = "next"]]
    /\ UNCHANGED << opts, mainPc, input, line, nread, closed, session, arg, res >>

\* Scan 505-507 and processBaseURL 510-521: the next base URL, a fresh output
\* record, the BASEURL line; Scan returns after the last one
NextBase(w) ==
    /\ wk[w].pc = "next"
    /\ wk' = [wk EXCEPT ![w] =
                IF @.baseURLs = << >>
                THEN [NoWorker EXCEPT !.pc = "idle"]
                ELSE [NoWorker EXCEPT
                        !.pc = "fetch",
                        !.inputURL = wk[w].inputURL,
                        !.baseURLs = Tail(wk[w].baseURLs),
                        !.baseURL = Head(wk[w].baseURLs),
                        !.output = [ZeroOutput EXCEPT !.Processing = wk[w].inputURL,
                                                      !.BaseURL = Head(wk[w].baseURLs)],
                        !.out = Pr(~opts.JSONOutput, "BASEURL")]]
    /\ UNCHANGED << opts, mainPc, input, line, nread, closed, session, arg, res >>

\* a verdict that takes every answered reflection check as reflected
AfterDetectAlwaysReflected(r, body) ==
    LET o == [r.output EXCEPT !.Reflected = TRUE]
    IN  IF opts.SkipSpecialChar
        THEN [r EXCEPT !.output = o,
                       !.out = @ \o Pr(~opts.JSONOutput, "REFLECTED: YES")
                                 \o Pr(opts.JSONOutput, "JSON"),
                       !.emitted = @ \o PrintJSON(o),
                       !.pc = "next"]
        ELSE [r EXCEPT !.output = o,
                       !.out = @ \o Pr(~opts.JSONOutput, "REFLECTED: YES"),
                       !.lists = EmptyLists,
                       !.idx = 1,
                       !.pc = "probe"]

\* processBaseURL 550-566: the verdict on the body of the reflection check
AfterDetect(r, body) ==
    IF Contains(body, Marker)
    THEN LET o == [r.output EXCEPT !.Reflected = TRUE]
         IN  IF opts.SkipSpecialChar
             THEN [r EXCEPT !.output = o,
                            !.out = @ \o Pr(~opts.JSONOutput, "REFLECTED: YES")
                                      \o Pr(opts.JSONOutput, "JSON"),
                            !.emitted = @ \o PrintJSON(o),
                            !.pc = "next"]
             ELSE [r EXCEPT !.output = o,
                            !.out = @ \o Pr(~opts.JSONOutput, "REFLECTED: YES"),
                            !.lists = EmptyLists,
                            !.idx = 1,
                            !.pc = "probe"]
    ELSE LET o == [r.output EXCEPT !.Reflected = FALSE]
         IN  [r EXCEPT !.output = o,
                       !.out = @ \o Pr(~opts.JSONOutput, "REFLECTED: NO")
                                 \o Pr(opts.JSONOutput, "JSON"),
                       !.emitted = @ \o PrintJSON(o),
                       !.pc = "next"]

\* processBaseURL 527-536: the static fetch of the base URL; on an error the verbose
\* line and return; without the marker in the body GetDOM(baseURL) is called
FetchBase(w) ==
    /\ wk[w].pc = "fetch"
    /\ LET r == [wk[w] EXCEPT !.reqs = Append(@, Req("static", "base", ""))]
       IN  \/ wk' = [wk EXCEPT ![w] =
                       [r EXCEPT !.out = @ \o Pr(opts.Verbose, "ERRFETCH"), !.pc = "next"]]
           \/ \E body \in Bodies :
                wk' = [wk EXCEPT ![w] =
                         IF ~Contains(body, Marker)
                         THEN [r EXCEPT !.reqs = AnsweredBase(@, body),
                                        !.target = r.baseURL,
                                        !.ret = "base", !.pc = "dom_nav"]
                         ELSE AfterDetect([r EXCEPT !.reqs = AnsweredBase(@, body)], body)]
    /\ UNCHANGED << opts, mainPc, input, line, nread, closed, session, arg, res >>

\* checkSpecialChars 601-612: the probe of Alphabet[idx] returned
ProbeReturn(r, err, testBody) ==
    IF err
    THEN [r EXCEPT !.idx = AfterProbeError(@), !.pc = "probe"]
    ELSE [r EXCEPT !.lists = AppendVerdict(@, testBody, Alphabet[r.idx]),
                   !.reqs = Answered(@),
                   !.idx = @ + 1,
                   !.pc = "probe"]

\* GetDOM returns to its caller: processBaseURL 538-548 or checkSpecialChars 596-612
DomReturn(r, err, dom) ==
    IF r.ret = "probe" THEN ProbeReturn(r, err, dom)
    ELSE IF err
    THEN [r EXCEPT !.out = @ \o Pr(opts.Verbose, "ERRDOM"), !.pc = "next"]
    ELSE AfterDetect([r EXCEPT !.reqs = AnsweredBase(@, dom),
                               !.reflectedInDOM = Contains(dom, Marker)], dom)

\* GetDOM 732-735: the first chromedp.Run on the browser context starts the
\* browser, under the context of this call; it fails when no browser can start
Allocate(s, w) ==
    IF s.browser = "none" /\ s.canStart
    THEN [s EXCEPT !.browser = "up", !.owner = w]
    ELSE s

\* GetDOM 733: the deferred cancel() of the call's context; the browser process
\* started under that context ends with it
CancelCall(s, w) ==
    IF s.browser = "up" /\ s.owner = w THEN [s EXCEPT !.browser = "dead"] ELSE s

\* GetDOM 729-743: chromedp.Run on the scanner's one tab navigates it to url, or fails
DomNavigate(w) ==
    /\ wk[w].pc = "dom_nav"
    /\ LET r == [wk[w] EXCEPT
                   !.reqs = Append(@, Req("dom", wk[w].ret,
                                          IF wk[w].ret = "probe" THEN Alphabet[wk[w].idx] ELSE ""))]
           s == Allocate(session, w)
       IN  \/ /\ wk' = [wk EXCEPT ![w] = DomReturn(r, TRUE, << >>)]
              /\ session' = CancelCall(s, w)
           \/ /\ s.browser = "up"
              /\ wk' = [wk EXCEPT ![w] = [r EXCEPT !.pc = "dom_read"]]
              /\ session' = [s EXCEPT !.nav = w]
    /\ UNCHANGED << opts, mainPc, input, line, nread, closed, arg, res >>

\* GetDOM 741-749: after the sleep OuterHTML reads the document of the page the tab
\* shows now, or the run fails; the call returns
DomRead(w) ==
    /\ wk[w].pc = "dom_read"
    /\ \/ wk' = [wk EXCEPT ![w] = DomReturn(wk[w], TRUE, << >>)]
       \/ /\ session.browser = "up"
          /\ \E dom \in Bodies :
               wk' = [wk EXCEPT ![w] =
                        DomReturn([wk[w] EXCEPT !.docFrom = session.nav], FALSE, dom)]
    /\ session' = CancelCall(session, w)
    /\ UNCHANGED << opts, mainPc, input, line, nread, closed, arg, res >>

\* checkSpecialChars 574-612, one turn of the loop: the target for marker+char is
\* the first one GenerateTargetURLs(inputURL, ...) returns; it is rendered when
\* reflectedInDOM, else fetched and classified
Probe(w) ==
    /\ wk[w].pc = "probe"
    /\ wk[w].idx <= Len(Alphabet)
    /\ LET char == Alphabet[wk[w].idx]
       IN  \E g \in GenerateTargetURLs(wk[w].inputURL, Marker \o << char >>) :
             IF g.err # ErrNil \/ Len(g.targets) = 0
             THEN wk' = [wk EXCEPT ![w].idx = @ + 1]
             ELSE LET r == [wk[w] EXCEPT
                              !.char = char,
                              !.testURL = g.targets[1],
                              !.out = @ \o Pr(opts.Verbose /\ ~opts.JSONOutput, "CHECKING")]
                  IN  IF ProbeChannel(r.reflectedInDOM) = "dom"
                      THEN wk' = [wk EXCEPT ![w] =
                                    [r EXCEPT !.target = r.testURL, !.ret = "probe",
                                              !.pc = "dom_nav"]]
                      ELSE LET q == [r EXCEPT !.reqs = Append(@, Req("static", "probe", char))]
                           IN  \/ wk' = [wk EXCEPT ![w] = ProbeReturn(q, TRUE, << >>)]
                               \/ \E testBody \in Bodies :
                                    wk' = [wk EXCEPT ![w] = ProbeReturn(q, FALSE, testBody)]
    /\ UNCHANGED << opts, mainPc, input, line, nread, closed, session, arg, res >>

\* checkSpecialChars 614-633 and processBaseURL 560: the lists and the counts go
\* into the record, the three lines or the record are printed
FinishProbes(w) ==
    /\ wk[w].pc = "probe"
    /\ wk[w].idx > Len(Alphabet)
    /\ LET l == wk[w].lists
           o == [wk[w].output EXCEPT
                   !.Allowed = Slice(l.allowed),
                   !.Blocked = Slice(l.blocked),
                   !.Converted = Slice(l.converted),
                   !.Count = Count(Len(l.allowed), Len(l.blocked), Len(l.converted))]
       IN  wk' = [wk EXCEPT ![w] =
                    [@ EXCEPT !.output = o,
                              !.out = @ \o Pr(~opts.JSONOutput, "LISTS")
                                        \o Pr(opts.JSONOutput, "JSON"),
                              !.emitted = @ \o PrintJSON(o),
                              !.pc = "next"]]
    /\ UNCHANGED << opts, mainPc, input, line, nread, closed, session, arg, res >>

Next ==
    \/ Start
    \/ ReadLine
    \/ CloseJobs
    \/ MainExit
    \/ \E w \in Workers :
         \/ Recv(w)
         \/ WorkerExit(w)
         \/ ScanStart(w)
         \/ NextBase(w)
         \/ FetchBase(w)
         \/ DomNavigate(w)
         \/ DomRead(w)
         \/ Probe(w)
         \/ FinishProbes(w)

Spec == Init /\ [][Next]_vars

SpecPool == InitPool /\ [][Next]_vars

(***************************************************************************)
(* GenerateTargetURLs and the classifier on their own: the input is drawn  *)
(* from a bounded set, one action applies the function.                    *)
(***************************************************************************)

\* the most "&"-separated pairs in the query of a generated input URL
MaxParams == 2

\* the most pieces in a generated probe body
MaxBodyParts == 2

\* every concatenation of at most n members of the set of strings P
RECURSIVE Concats(_, _)
Concats(P, n) ==
    IF n = 0 THEN { << >> }
    ELSE Concats(P, n - 1) \cup { p \o c : p \in P, c \in Concats(P, n - 1) }

\* the members of the sequence of strings ss joined by sep (strings.Join)
RECURSIVE Join(_, _)
Join(ss, sep) ==
    IF ss = << >> THEN << >>
    ELSE IF Len(ss) = 1 THEN ss[1]
    ELSE ss[1] \o sep \o Join(Tail(ss), sep)

\* the start of an input URL: absolute, relative, or with an empty scheme
Heads == { << "h", "t", "t", "p", ":", "/", "/", "x", "/" >>, << "/" >>, << ":" >> }

\* the rest of its path: empty, a segment, the placeholder, an invalid escape
PathTails == { << >>, << "p" >>, Placeholder, << "%", "z", "z" >> }

\* the pairs of its query
Pairs ==
    { << "a", "=", "1" >>, << "b", "=", "2" >>, << "a", "=", "3" >>,
      << "c", "=" >> \o Placeholder, << "b", "=", "%", "3", "c" >>,
      << "d", "=", "%", "z", "z" >>, << "c" >> }

\* the sequences of n pairs
RECURSIVE PairSeqs(_)
PairSeqs(n) ==
    IF n = 0 THEN { << >> }
    ELSE { Append(ps, p) : ps \in PairSeqs(n - 1), p \in Pairs }

\* the query parts: none, a bare "?", "?" and 1..MaxParams pairs
QueryParts ==
    { << >>, << "?" >> }
    \cup { << "?" >> \o Join(ps, << "&" >>) :
             ps \in UNION { PairSeqs(n) : n \in 1..MaxParams } }

GenURLs == { h \o p \o q : h \in Heads, p \in PathTails, q \in QueryParts }

\* the payloads Scan and checkSpecialChars pass: the marker, the marker and a character
GenPayloads == { Marker, Marker \o << "<" >> }

InitGen ==
    /\ opts = [ Concurrency |-> 1, JSONOutput |-> FALSE, Verbose |-> FALSE,
                SkipSpecialChar |-> FALSE ]
    /\ mainPc = "init"
    /\ input = { }
    /\ line = << >>
    /\ nread = 0
    /\ closed = FALSE
    /\ wk = [ w \in Workers |-> NoWorker ]
    /\ session = NoSession
    /\ arg \in { [NoArg EXCEPT !.op = "generate", !.inputURL = u, !.payload = p] :
                   u \in GenURLs, p \in GenPayloads }
    /\ res = NoRes

\* utils.GenerateTargetURLs(inputURL, payload) is called and returns
CallGenerate ==
    /\ arg.op = "generate"
    /\ ~res.done
    /\ \E g \in GenerateTargetURLs(arg.inputURL, arg.payload) :
         res' = [res EXCEPT !.done = TRUE, !.gen = g]
    /\ UNCHANGED << opts, mainPc, input, line, nread, closed, wk, session, arg >>

NextGen == CallGenerate

SpecGen == InitGen /\ [][NextGen]_vars

\* what a probe body is made of, for the character char: filler, the marker, the
\* character, its encoded form, and the marker followed by either
BodyPieces(char) ==
    { << "x" >>, Marker, << char >>, Marker \o << char >> }
    \cup (IF char \in DOMAIN conversions
          THEN { conversions[char], Marker \o conversions[char] }
          ELSE { << "&", "l", "t", ";" >>, Marker \o << "&", "l", "t", ";" >> })

\* the lists a probe can find when it returns: empty, or filled by earlier probes
EarlierLists ==
    { EmptyLists,
      [ allowed |-> << "'" >>, converted |-> << >>, blocked |-> << >> ],
      [ allowed |-> << >>, converted |-> << ConvertedEntry("'", conversions["'"]) >>,
        blocked |-> << >> ],
      [ allowed |-> << >>, converted |-> << >>, blocked |-> << "'" >> ] }

InitClassify ==
    /\ opts = [ Concurrency |-> 1, JSONOutput |-> FALSE, Verbose |-> FALSE,
                SkipSpecialChar |-> FALSE ]
    /\ mainPc = "init"
    /\ input = { }
    /\ line = << >>
    /\ nread = 0
    /\ closed = FALSE
    /\ wk = [ w \in Workers |-> NoWorker ]
    /\ session = NoSession
    /\ \E i \in 2..Len(specialChars) :
         arg \in { [NoArg EXCEPT !.op = "classify", !.char = specialChars[i],
                                 !.testBody = b, !.lists = l] :
                     b \in Concats(BodyPieces(specialChars[i]), MaxBodyParts),
                     l \in EarlierLists }
    /\ res = NoRes

\* checkSpecialChars 605-611 on one probe body
CallClassify ==
    /\ arg.op = "classify"
    /\ ~res.done
    /\ res' = [res EXCEPT !.done = TRUE,
                          !.lists = AppendVerdict(arg.lists, arg.testBody, arg.char)]
    /\ UNCHANGED << opts, mainPc, input, line, nread, closed, wk, session, arg >>

NextClassify == CallClassify

SpecClassify == InitClassify /\ [][NextClassify]_vars


(***************************************************************************)
(* the claims                                                              *)
(***************************************************************************)

\* the workers inside a GetDOM call, between its Navigate and its OuterHTML
InFlight == { w \in Workers : wk[w].pc = "dom_read" }

\* C1: at most one GetDOM call is in flight on the browser session at a time, and
\* the document a worker reads comes from its own navigation
C1_OneRenderInFlight ==
    /\ Cardinality(InFlight) <= 1
    /\ \A w \in Workers : wk[w].docFrom \in { 0, w }

\* the reflection check of w's candidate found the marker on channel ch
Hit(w, ch) ==
    \E i \in DOMAIN wk[w].reqs :
        /\ wk[w].reqs[i].kind = "base"
        /\ wk[w].reqs[i].ch = ch
        /\ wk[w].reqs[i].hit

\* C2: once the static body holds the marker every request of the candidate is a
\* static fetch and GetDOM is never called for it; when the static body lacks the
\* marker and the rendered document holds it, the record is reflected and every
\* probe is a render
C2_ChannelFixed ==
    \A w \in Workers :
        /\ Hit(w, "static") =>
             /\ \A i \in DOMAIN wk[w].reqs : wk[w].reqs[i].ch = "static"
             /\ wk[w].pc \notin { "dom_nav", "dom_read" }
        /\ (~Hit(w, "static") /\ Hit(w, "dom")) =>
             /\ wk[w].output.Reflected
             /\ \A i \in DOMAIN wk[w].reqs :
                    wk[w].reqs[i].kind = "probe" => wk[w].reqs[i].ch = "dom"

\* C2: a candidate reflected in the rendered document only, all of whose probes
\* were sent to the renderer
C2_Witness ==
    \E w \in Workers :
        /\ ~Hit(w, "static")
        /\ Hit(w, "dom")
        /\ wk[w].pc = "next"
        /\ Cardinality({ i \in DOMAIN wk[w].reqs : wk[w].reqs[i].kind = "probe" })
             = Len(Alphabet)
        /\ \A i \in DOMAIN wk[w].reqs :
               wk[w].reqs[i].kind = "probe" => wk[w].reqs[i].ch = "dom"

\* C3: the probe URL for a character is the base URL with marker+character in the
\* place of the marker (verbatim or query-escaped): the same injection point
C3_ProbeAtBaseInjectionPoint ==
    \A w \in Workers :
        wk[w].testURL # << >> =>
            wk[w].testURL \in
                { ReplaceAll(wk[w].baseURL, Marker, Marker \o << wk[w].char >>),
                  ReplaceAll(wk[w].baseURL, Marker, Marker \o QueryEscape(<< wk[w].char >>)) }

\* a call of GenerateTargetURLs has returned
Generated == arg.op = "generate" /\ res.done

\* target is inputURL with the value of key, the bytes from "key=" up to the next
\* "&" or the end, replaced by the payload (verbatim or query-escaped), and
\* nothing else changed
ValueReplaced(inputURL, target, key, payload) ==
    \E i \in 1..Len(inputURL) :
        \E j \in (i + 1)..(Len(inputURL) + 1) :
            /\ i >= Len(key) + 1
            /\ SubSeq(inputURL, i - Len(key), i) = key \o << "=" >>
            /\ ~Contains(SubSeq(inputURL, i + 1, j - 1), << "&" >>)
            /\ j = Len(inputURL) + 1 \/ inputURL[j] = "&"
            /\ \E p \in { payload, QueryEscape(payload) } :
                   target = SubSeq(inputURL, 1, i) \o p \o SubSeq(inputURL, j, Len(inputURL))

\* the query of the URL is "&"-separated key=value pairs of letters and digits,
\* a non-empty key each and no key twice
PlainQuery(inputURL) ==
    LET parts == Split(Cut(inputURL, << "?" >>)[2], << "&" >>)
    IN  /\ \A i \in DOMAIN parts :
               /\ Cut(parts[i], << "=" >>)[3]
               /\ Cut(parts[i], << "=" >>)[1] # << >>
               /\ \A j \in DOMAIN parts[i] : parts[i][j] \in Letters \cup Digits \cup { "=" }
        /\ \A i, j \in DOMAIN parts :
               Cut(parts[i], << "=" >>)[1] = Cut(parts[j], << "=" >>)[1] => i = j

\* C4: for a URL with k >= 1 distinct query keys and no placeholder the result is
\* k candidates, one per key, each the input with only that key's value replaced
\* and every other byte, the position of the parameters included, as it was
C4_OnlyOneValueReplaced ==
    LET u == Parse(arg.inputURL)
        keys == DOMAIN Query(u.RawQuery)
        t == res.gen.targets
    IN  (Generated /\ ~Contains(arg.inputURL, Placeholder) /\ ~u.err
             /\ PlainQuery(arg.inputURL)) =>
            /\ res.gen.err = ErrNil
            /\ Len(t) = Cardinality(keys)
            /\ \A k \in keys :
                   Cardinality({ i \in DOMAIN t :
                                   ValueReplaced(arg.inputURL, t[i], k, arg.payload) }) = 1

\* the distinct keys of the pairs, in the order of their first appearance
RECURSIVE FirstSeen(_, _)
FirstSeen(pairs, seen) ==
    IF pairs = << >> THEN << >>
    ELSE IF pairs[1][1] \in seen THEN FirstSeen(Tail(pairs), seen)
    ELSE << pairs[1][1] >> \o FirstSeen(Tail(pairs), seen \cup { pairs[1][1] })

\* C5: the i-th candidate injects the payload into the i-th distinct key in the
\* order the keys are parsed from the input URL
C5_OrderAsParsed ==
    LET u == Parse(arg.inputURL)
        q == Query(u.RawQuery)
        keys == FirstSeen(ParsePairs(Split(u.RawQuery, << "&" >>)), { })
        t == res.gen.targets
    IN  (Generated /\ ~Contains(arg.inputURL, Placeholder) /\ ~u.err
             /\ PlainQuery(arg.inputURL)) =>
            /\ res.gen.err = ErrNil
            /\ Len(t) = Len(keys)
            /\ \A i \in DOMAIN t : t[i] = TargetFor(u, q, keys[i], arg.payload)

\* C6: a URL with the placeholder yields exactly one candidate, the input with
\* every occurrence of the token replaced by the payload verbatim, whether or not
\* it has query parameters
C6_PlaceholderWins ==
    (Generated /\ Contains(arg.inputURL, Placeholder)) =>
        /\ res.gen.err = ErrNil
        /\ Len(res.gen.targets) = 1
        /\ res.gen.targets[1] = Join(Split(arg.inputURL, Placeholder), arg.payload)

\* C6: a URL with the token twice and a query parameter besides has returned its
\* one candidate
C6_Witness ==
    /\ Generated
    /\ CountFrom(arg.inputURL, Placeholder, 1) = 2
    /\ Contains(arg.inputURL, << "?", "a", "=", "1", "&" >>)
    /\ Len(res.gen.targets) = 1
    /\ ~Contains(res.gen.targets[1], Placeholder)

\* the URL has nothing after a "?"
NoQuery(inputURL) == Cut(inputURL, << "?" >>)[2] = << >>

\* C7, as claimed: NoInjectionPoint for a well-formed URL without query parameters
\* and placeholder, InvalidURL for every malformed URL, two distinct outcomes,
\* no candidate on an error
C7_ErrorsAsClaimed ==
    Generated =>
        /\ Parse(arg.inputURL).err =>
               res.gen.err = ErrInvalidURL /\ res.gen.targets = << >>
        /\ (~Parse(arg.inputURL).err /\ NoQuery(arg.inputURL)
                /\ ~Contains(arg.inputURL, Placeholder)) =>
               res.gen.err = ErrNoInjection /\ res.gen.targets = << >>
        /\ ErrInvalidURL # ErrNoInjection
        /\ res.gen.err # ErrNil => res.gen.targets = << >>

\* C7, amended: InvalidURL for a malformed URL that does not contain the
\* placeholder; the rest as claimed
C7_ErrorsWithoutPlaceholder ==
    Generated =>
        /\ (Parse(arg.inputURL).err /\ ~Contains(arg.inputURL, Placeholder)) =>
               res.gen.err = ErrInvalidURL /\ res.gen.targets = << >>
        /\ (~Parse(arg.inputURL).err /\ NoQuery(arg.inputURL)
                /\ ~Contains(arg.inputURL, Placeholder)) =>
               res.gen.err = ErrNoInjection /\ res.gen.targets = << >>
        /\ ErrInvalidURL # ErrNoInjection
        /\ res.gen.err # ErrNil => res.gen.targets = << >>

\* C7: a malformed URL with a query and without the placeholder was refused
C7_Witness ==
    /\ Generated
    /\ Parse(arg.inputURL).err
    /\ ~Contains(arg.inputURL, Placeholder)
    /\ ~NoQuery(arg.inputURL)
    /\ res.gen.err = ErrInvalidURL
    /\ res.gen.targets = << >>

\* the list after is the list before and one more entry
Grew(before, after) == Len(after) = Len(before) + 1 /\ SubSeq(after, 1, Len(before)) = before

\* C8: a probe body files the character under exactly one verdict: allowed when
\* the body holds marker+character, else converted when the character has an
\* encoded form and the body holds marker+form, else blocked
C8_ThreeWay ==
    LET raw == Contains(arg.testBody, Marker \o << arg.char >>)
        enc == /\ arg.char \in DOMAIN conversions
               /\ Contains(arg.testBody, Marker \o conversions[arg.char])
        a == Grew(arg.lists.allowed, res.lists.allowed)
        c == Grew(arg.lists.converted, res.lists.converted)
        b == Grew(arg.lists.blocked, res.lists.blocked)
    IN  (arg.op = "classify" /\ res.done) =>
            /\ a <=> raw
            /\ c <=> (~raw /\ enc)
            /\ b <=> (~raw /\ ~enc)
            /\ ~a => res.lists.allowed = arg.lists.allowed
            /\ ~c => res.lists.converted = arg.lists.converted
            /\ ~b => res.lists.blocked = arg.lists.blocked
            /\ Len(res.lists.allowed) + Len(res.lists.converted) + Len(res.lists.blocked)
                 = Len(arg.lists.allowed) + Len(arg.lists.converted)
                   + Len(arg.lists.blocked) + 1
            /\ a => res.lists.allowed[Len(res.lists.allowed)] = arg.char
            /\ b => res.lists.blocked[Len(res.lists.blocked)] = arg.char
            /\ c => res.lists.converted[Len(res.lists.converted)]
                      = ConvertedEntry(arg.char, conversions[arg.char])
            /\ arg.char \notin DOMAIN conversions => ~c

\* C8: a body with the raw and the encoded form was classified allowed
C8_Witness ==
    /\ arg.op = "classify"
    /\ res.done
    /\ arg.char \in DOMAIN conversions
    /\ Contains(arg.testBody, Marker \o << arg.char >>)
    /\ Contains(arg.testBody, Marker \o conversions[arg.char])
    /\ Grew(arg.lists.allowed, res.lists.allowed)

\* the characters of a list of characters, and of a list of "char ➔ entity" entries
CharsOf(list) == { list[i] : i \in DOMAIN list }
ConvertedChars(list) == { list[i][1] : i \in DOMAIN list }

\* the characters of w's candidate whose probe failed
FailedChars(w) ==
    { wk[w].reqs[i].char : i \in { j \in DOMAIN wk[w].reqs :
                                     wk[w].reqs[j].kind = "probe" /\ ~wk[w].reqs[j].ok } }

\* C9: in every emitted record no character is in two of allowed, blocked and
\* converted or twice in one, the three hold at most as many entries as the
\* alphabet has characters, and a character whose probe failed is in none
C9_DisjointSets ==
    \A w \in Workers :
        \A k \in DOMAIN wk[w].emitted :
            LET rec == wk[w].emitted[k]
                A == CharsOf(rec.Allowed.s)
                B == CharsOf(rec.Blocked.s)
                C == ConvertedChars(rec.Converted.s)
            IN  /\ A \cap B = { }
                /\ A \cap C = { }
                /\ B \cap C = { }
                /\ Cardinality(A) = Len(rec.Allowed.s)
                /\ Cardinality(B) = Len(rec.Blocked.s)
                /\ Cardinality(C) = Len(rec.Converted.s)
                /\ Len(rec.Allowed.s) + Len(rec.Blocked.s) + Len(rec.Converted.s)
                     <= Len(Alphabet)
                /\ FailedChars(w) \cap (A \cup B \cup C) = { }

\* C9: a record was emitted with a converted character and without the character
\* whose probe failed
C9_Witness ==
    \E w \in Workers :
        /\ Len(wk[w].emitted) = 1
        /\ wk[w].emitted[1].Converted.s # << >>
        /\ FailedChars(w) # { }

\* the probed characters of w's candidate, in the order of the requests
RECURSIVE ProbedChars(_)
ProbedChars(reqs) ==
    IF reqs = << >> THEN << >>
    ELSE (IF reqs[1].kind = "probe" THEN << reqs[1].char >> ELSE << >>)
         \o ProbedChars(Tail(reqs))

\* w is in the probe loop of checkSpecialChars
Probing(w) ==
    \/ wk[w].pc = "probe"
    \/ wk[w].pc \in { "dom_nav", "dom_read" } /\ wk[w].ret = "probe"

\* a candidate that went through the probe loop is done: every character of the
\* alphabet was probed, in order; the record (the three lines outside JSON mode)
\* is written with the lists of the loop; every answered probe is classified
C10_AllProbed ==
    \A w \in Workers :
        (wk[w].pc = "next" /\ wk[w].output.Reflected /\ ~opts.SkipSpecialChar) =>
            /\ ProbedChars(wk[w].reqs) = Alphabet
            /\ opts.JSONOutput =>
                   /\ Len(wk[w].emitted) = 1
                   /\ wk[w].emitted[1].Allowed.s = wk[w].lists.allowed
                   /\ wk[w].emitted[1].Blocked.s = wk[w].lists.blocked
                   /\ wk[w].emitted[1].Converted.s = wk[w].lists.converted
            /\ ~opts.JSONOutput => wk[w].out[Len(wk[w].out)] = "LISTS"
            /\ \A i \in DOMAIN wk[w].reqs :
                   (wk[w].reqs[i].kind = "probe" /\ wk[w].reqs[i].ok) =>
                       wk[w].reqs[i].char \in CharsOf(wk[w].lists.allowed)
                                              \cup CharsOf(wk[w].lists.blocked)
                                              \cup ConvertedChars(wk[w].lists.converted)

\* a step of the probe loop keeps the entries the lists hold
C10_ListsKept ==
    \A w \in Workers :
        Probing(w) =>
            /\ SubSeq(wk'[w].lists.allowed, 1, Len(wk[w].lists.allowed)) = wk[w].lists.allowed
            /\ SubSeq(wk'[w].lists.blocked, 1, Len(wk[w].lists.blocked)) = wk[w].lists.blocked
            /\ SubSeq(wk'[w].lists.converted, 1, Len(wk[w].lists.converted))
                 = wk[w].lists.converted

\* C10: a failed probe does not end the probe loop: the later characters are
\* probed and classified, the record is emitted, and the characters classified
\* before keep their verdict
C10_FailureSkipsOneCharacter == []C10_AllProbed /\ [][C10_ListsKept]_vars

\* C10: a record was emitted whose first probe failed and whose later probe is
\* classified
C10_Witness ==
    \E w \in Workers :
        /\ wk[w].pc = "next"
        /\ Len(wk[w].emitted) = 1
        /\ \E i, j \in DOMAIN wk[w].reqs :
               /\ i < j
               /\ wk[w].reqs[i].kind = "probe"
               /\ ~wk[w].reqs[i].ok
               /\ wk[w].reqs[j].kind = "probe"
               /\ wk[w].reqs[j].ok
               /\ wk[w].reqs[j].char \in CharsOf(wk[w].emitted[1].Allowed.s)
                                          \cup CharsOf(wk[w].emitted[1].Blocked.s)
                                          \cup ConvertedChars(wk[w].emitted[1].Converted.s)

\* C11: in JSON mode, whatever the verbosity, everything written to the output
\* is a complete record; a skipped unit of work writes nothing
C11_OnlyRecords ==
    opts.JSONOutput =>
        \A w \in Workers :
            \A i \in DOMAIN wk[w].out : wk[w].out[i] = "JSON"

\* C12: when no browser can be started the scanner is not built: no worker is
\* started, no line is read, and no render is attempted
C12_SessionInitFatal ==
    ~session.canStart =>
        /\ \A w \in Workers : wk[w].pc = "none"
        /\ nread = 0
        /\ \A w \in Workers : \A i \in DOMAIN wk[w].reqs : wk[w].reqs[i].ch # "dom"

\* after end-of-input main is past its read loop and hands nothing over; once the
\* session is closed no worker is at work
C13_Drained ==
    /\ closed => (mainPc \in { "wait", "done" } /\ line = << >>)
    /\ mainPc = "done" =>
           /\ ~session.alive
           /\ \A w \in Workers : wk[w].pc \in { "none", "exit" }

\* after end-of-input no worker receives a URL; the session is closed in a step
\* that finds every worker finished, and nothing moves afterwards
C13_Step ==
    /\ closed => \A w \in Workers : wk'[w].pc = "scan" => wk[w].pc = "scan"
    /\ (session.alive /\ ~session'.alive) =>
           /\ closed
           /\ \A w \in Workers : wk[w].pc \in { "none", "exit" }
    /\ mainPc = "done" => wk' = wk

\* C13: shutdown is ordered: after end-of-input no new URL is handed to a worker,
\* main waits for every worker to finish its URL, and only then closes the
\* browser session; no fetch or render is started or in flight after that
C13_OrderedShutdown == []C13_Drained /\ [][C13_Step]_vars

\* C13: the input has ended while a worker is inside a render, the session open
C13_Witness ==
    /\ closed
    /\ mainPc = "wait"
    /\ session.alive
    /\ \E w \in Workers : wk[w].pc = "dom_read"
    /\ \E w \in Workers : wk[w].pc = "exit"

\* a run with any concurrency level from 0 (--concurrency takes every integer)
InitLevels == InitMain(0..MaxConcurrency, PoolLines)

\* the Go scheduler runs a goroutine that can take a step, and every fetch and
\* render returns: some enabled step is taken
SpecLive == InitLevels /\ [][Next]_vars /\ WF_vars(Next)

\* C14: the run terminates for every concurrency level: a line main is sending is
\* taken by a worker, the workers exit once the queue is closed, main returns
C14_Terminates ==
    /\ (mainPc = "send") ~> (mainPc # "send")
    /\ closed ~> WorkersDone
    /\ <>(mainPc = "done")

\* the same for the runs with at least one worker
C14_TerminatesWithWorkers == (opts.Concurrency >= 1) => C14_Terminates

(***************************************************************************)
(* The deadlines of a fetch and of a render, for two settings of --timeout *)
(***************************************************************************)

\* the largest --timeout of the model, in seconds
MaxTimeout == 12

\* GetDOM 732: 30*time.Second
RenderSeconds == 30

\* NewScanner 465-468: http.Client.Timeout is opts.Timeout seconds
ClientTimeout(timeout) == timeout

\* NewDOMScanner 697-722 does not use its timeout parameter; GetDOM 732 runs under
\* context.WithTimeout(s.ctx, 30*time.Second)
RenderTimeout(timeout) == RenderSeconds

InitDeadline ==
    /\ opts = [ Concurrency |-> 1, JSONOutput |-> FALSE, Verbose |-> FALSE,
                SkipSpecialChar |-> FALSE ]
    /\ mainPc = "init"
    /\ input = { }
    /\ line = << >>
    /\ nread = 0
    /\ closed = FALSE
    /\ wk = [ w \in Workers |-> NoWorker ]
    /\ session = NoSession
    /\ \E a, b \in 1..MaxTimeout :
         arg = [NoArg EXCEPT !.op = "deadline", !.t1 = a, !.t2 = b]
    /\ res = NoRes

\* the deadlines NewScanner and GetDOM set up under each of the two settings
CallDeadlines ==
    /\ arg.op = "deadline"
    /\ ~res.done
    /\ res' = [res EXCEPT !.done = TRUE,
                          !.fetch = << ClientTimeout(arg.t1), ClientTimeout(arg.t2) >>,
                          !.render = << RenderTimeout(arg.t1), RenderTimeout(arg.t2) >>]
    /\ UNCHANGED << opts, mainPc, input, line, nread, closed, wk, session, arg >>

NextDeadline == CallDeadlines

SpecDeadline == InitDeadline /\ [][NextDeadline]_vars

\* C15: the deadline of a fetch and of a render is derived from the configured
\* timeout: for t1 < t2 the one under t1 is not longer than the one under t2, and
\* the two differ
C15_DeadlinesFollowTimeout ==
    (arg.op = "deadline" /\ res.done /\ arg.t1 < arg.t2) =>
        /\ res.fetch[1] <= res.fetch[2]
        /\ res.fetch[1] # res.fetch[2]
        /\ res.render[1] <= res.render[2]
        /\ res.render[1] # res.render[2]

(***************************************************************************)
(* The event-driven GetDOM (part_000 55-97): one call, with time in ticks  *)
(* of 250 ms                                                               *)
(***************************************************************************)

\* GetDOM 67, 74, 76: the idle timer of 500 ms, in ticks
IdleTicks == 2

\* the largest number of network events of a page that falls silent
MaxEvents == 2

\* the clock of the model stops counting here
ClockCap == MaxTimeout + 1

\* NewDOMScanner 30-48 and GetDOM 57: the context of the run is s.ctx, made by
\* chromedp.NewContext from context.Background(); the timeout parameter is not
\* used and the context carries no deadline
RunDeadline(timeout) == "none"

\* GetDOM 87: ctx.Done() is ready once the deadline of the context has passed
CtxDone(deadline, clock) == deadline # "none" /\ clock >= deadline

InitSettle ==
    /\ opts = [ Concurrency |-> 1, JSONOutput |-> FALSE, Verbose |-> FALSE,
                SkipSpecialChar |-> FALSE ]
    /\ mainPc = "init"
    /\ input = { }
    /\ line = << >>
    /\ nread = 0
    /\ closed = FALSE
    /\ wk = [ w \in Workers |-> NoWorker ]
    /\ session = NoSession
    /\ \E t \in 1..MaxTimeout, p \in { "quiet", "busy" } :
         arg = [NoArg EXCEPT !.op = "settle", !.t1 = t, !.page = p]
    /\ \E n \in 0..MaxEvents :
         res = [NoRes EXCEPT !.pc = "nav", !.left = IF arg.page = "busy" THEN 0 ELSE n]

\* GetDOM 57-67: the page is navigated to (or the run fails), the ActionFunc
\* starts its listener and the idle timer
SettleNavigate ==
    /\ arg.op = "settle"
    /\ res.pc = "nav"
    /\ \/ res' = [res EXCEPT !.pc = "returned", !.err = TRUE, !.done = TRUE]
       \/ res' = [res EXCEPT !.pc = "wait", !.timer = IdleTicks]
    /\ UNCHANGED << opts, mainPc, input, line, nread, closed, wk, session, arg >>

\* GetDOM 71-78: a network event of the page resets the idle timer
SettleEvent ==
    /\ arg.op = "settle"
    /\ res.pc = "wait"
    /\ arg.page = "busy" \/ res.left > 0
    /\ res' = [res EXCEPT !.timer = IdleTicks,
                          !.left = IF arg.page = "busy" THEN @ ELSE @ - 1]
    /\ UNCHANGED << opts, mainPc, input, line, nread, closed, wk, session, arg >>

\* a tick passes while the ActionFunc waits in its select
SettleTick ==
    /\ arg.op = "settle"
    /\ res.pc = "wait"
    /\ res.timer > 0
    /\ res' = [res EXCEPT !.timer = @ - 1,
                          !.clock = IF @ < ClockCap THEN @ + 1 ELSE @]
    /\ UNCHANGED << opts, mainPc, input, line, nread, closed, wk, session, arg >>

\* GetDOM 80-89: the timer has fired and `idle` is received, or ctx.Done() is
\* ready and the ActionFunc returns ctx.Err()
SettleSelect ==
    /\ arg.op = "settle"
    /\ res.pc = "wait"
    /\ \/ /\ res.timer = 0
          /\ res' = [res EXCEPT !.pc = "read"]
       \/ /\ CtxDone(RunDeadline(arg.t1), res.clock)
          /\ res' = [res EXCEPT !.pc = "returned", !.err = TRUE, !.done = TRUE]
    /\ UNCHANGED << opts, mainPc, input, line, nread, closed, wk, session, arg >>

\* GetDOM 91-96: OuterHTML, the document or the error is returned
SettleRead ==
    /\ arg.op = "settle"
    /\ res.pc = "read"
    /\ \E e \in BOOLEAN : res' = [res EXCEPT !.pc = "returned", !.err = e, !.done = TRUE]
    /\ UNCHANGED << opts, mainPc, input, line, nread, closed, wk, session, arg >>

NextSettle ==
    \/ SettleNavigate
    \/ SettleEvent
    \/ SettleTick
    \/ SettleSelect
    \/ SettleRead

\* time passes while the call waits, and the goroutines of the call run
SpecSettle ==
    /\ InitSettle
    /\ [][NextSettle]_vars
    /\ WF_vars(SettleNavigate)
    /\ WF_vars(SettleTick)
    /\ WF_vars(SettleSelect)
    /\ WF_vars(SettleRead)

\* C16: the settle wait runs under the navigation deadline, which wins: once the
\* configured timeout has passed GetDOM returns, whatever the page's traffic
C16_DeadlineWins ==
    (res.pc = "wait" /\ res.clock >= arg.t1) ~> (res.pc = "returned")

\* C17: a render releases the session and does not tear it down: as long as Close
\* has not run, the browser of the session has not been ended
C17_SessionOutlivesRender ==
    session.alive => session.browser # "dead"

\* the Scan of a blank line writes nothing, sends no request and returns to the
\* receive loop
BlankIgnored ==
    \A w \in Workers :
        (wk[w].pc = "scan" /\ wk[w].inputURL = URLBlank /\ wk'[w] # wk[w]) =>
            /\ wk'[w].pc = "idle"
            /\ wk'[w].out = << >>
            /\ wk'[w].reqs = << >>

\* C18: a blank input line is ignored in every output mode: no fetch, no render,
\* nothing written, and the worker goes on with the next line
C18_BlankLineIgnored == [][BlankIgnored]_vars

\* the items of the output that belong to a result
ResultLines == { "BASEURL", "REFLECTED: YES", "REFLECTED: NO", "LISTS", "JSON" }

\* a worker back in its receive loop after a URL without an injection point has
\* emitted no record, written no result and sent no request; main goes on
C19_Skipped ==
    \A w \in Workers :
        (wk[w].pc = "idle" /\ wk[w].inputURL = URLNoInjection) =>
            /\ wk[w].emitted = << >>
            /\ wk[w].reqs = << >>
            /\ \A i \in DOMAIN wk[w].out : wk[w].out[i] \notin ResultLines
            /\ mainPc # "done"
            /\ session.alive

\* the Scan of a URL with no query and no placeholder returns to the receive
\* loop in one step, without a request or a record, and stops nothing
C19_Step ==
    \A w \in Workers :
        (/\ wk[w].pc = "scan"
         /\ wk[w].inputURL # << >>
         /\ NoQuery(wk[w].inputURL)
         /\ ~Contains(wk[w].inputURL, Placeholder)
         /\ wk'[w] # wk[w]) =>
            /\ wk'[w].pc = "idle"
            /\ wk'[w].emitted = << >>
            /\ wk'[w].reqs = << >>
            /\ mainPc' = mainPc
            /\ session' = session

\* C19: an input URL with no injection point produces no record and no request,
\* is never fatal, and leaves the worker ready for the lines after it
C19_NoInjectionSkipped == []C19_Skipped /\ [][C19_Step]_vars

\* C19: a worker has skipped a URL without injection point and main is handing
\* it the next line, a URL with one
C19_Witness ==
    /\ mainPc = "send"
    /\ line = URLPlaceholder
    /\ \E w \in Workers :
           /\ wk[w].pc = "idle"
           /\ wk[w].inputURL = URLNoInjection
           /\ wk[w].reqs = << >>

\* the reflection check of w's candidate has come to a verdict: it was neither
\* cut short by a failed fetch nor by a failed render
Detected(w) ==
    \E i \in DOMAIN wk[w].reqs :
        /\ wk[w].reqs[i].kind = "base"
        /\ wk[w].reqs[i].ok
        /\ wk[w].reqs[i].hit \/ wk[w].reqs[i].ch = "dom"

\* in JSON mode a candidate has no record while it is being processed and one
\* when it is done, written after the last probe; every record has its three
\* arrays and a count that gives their lengths
C20_Records ==
    \A w \in Workers :
        /\ ~opts.JSONOutput => wk[w].emitted = << >>
        /\ Len(wk[w].emitted) <= 1
        /\ wk[w].pc \in { "fetch", "dom_nav", "dom_read", "probe" } => wk[w].emitted = << >>
        /\ (opts.JSONOutput /\ wk[w].pc = "next" /\ Detected(w)) => Len(wk[w].emitted) = 1
        /\ \A k \in DOMAIN wk[w].emitted :
               LET rec == wk[w].emitted[k]
               IN  /\ ~rec.Allowed.nil
                   /\ ~rec.Blocked.nil
                   /\ ~rec.Converted.nil
                   /\ ~rec.Count.nil
                   /\ rec.Count.allowed = Len(rec.Allowed.s)
                   /\ rec.Count.blocked = Len(rec.Blocked.s)
                   /\ rec.Count.converted = Len(rec.Converted.s)
                   /\ (rec.Reflected /\ ~opts.SkipSpecialChar) =>
                          Cardinality({ i \in DOMAIN wk[w].reqs :
                                          wk[w].reqs[i].kind = "probe" }) = Len(Alphabet)

\* a record that was emitted stays as it is until the worker turns to its next
\* candidate
C20_Step ==
    \A w \in Workers :
        wk[w].emitted # << >> =>
            \/ wk'[w].emitted = wk[w].emitted
            \/ wk[w].pc = "next" /\ wk'[w].emitted = << >>

\* C20: in JSON mode every candidate processed to completion yields exactly one
\* record, emitted after the last probe and not changed afterwards, with all three
\* arrays present and the counts equal to their lengths
C20_OneCompleteRecord == []C20_Records /\ [][C20_Step]_vars

\* C20: the record of a candidate that does not reflect: the arrays of the
\* worker's record are nil, those of the emitted one are empty
C20_Witness ==
    \E w \in Workers :
        /\ Len(wk[w].emitted) = 1
        /\ ~wk[w].emitted[1].Reflected
        /\ wk[w].output.Allowed.nil
        /\ wk[w].emitted[1].Allowed = Slice(<< >>)
        /\ wk[w].emitted[1].Count = Count(0, 0, 0)

\* the reflection check of w's candidate on channel ch was answered without the
\* marker
Miss(w, ch) ==
    \E i \in DOMAIN wk[w].reqs :
        /\ wk[w].reqs[i].kind = "base"
        /\ wk[w].reqs[i].ch = ch
        /\ wk[w].reqs[i].ok
        /\ ~wk[w].reqs[i].hit

\* C21: a candidate whose static body and rendered document both lack the marker
\* ends not reflected: no probe request, one record with reflected=false and
\* three empty sets (outside JSON mode the one line REFLECTED: NO)
C21_NotReflected ==
    \A w \in Workers :
        (Miss(w, "static") /\ Miss(w, "dom")) =>
            /\ wk[w].pc = "next"
            /\ \A i \in DOMAIN wk[w].reqs : wk[w].reqs[i].kind # "probe"
            /\ ~wk[w].output.Reflected
            /\ opts.JSONOutput =>
                   /\ Len(wk[w].emitted) = 1
                   /\ ~wk[w].emitted[1].Reflected
                   /\ wk[w].emitted[1].BaseURL = wk[w].baseURL
                   /\ wk[w].emitted[1].Allowed = Slice(<< >>)
                   /\ wk[w].emitted[1].Blocked = Slice(<< >>)
                   /\ wk[w].emitted[1].Converted = Slice(<< >>)
                   /\ wk[w].emitted[1].Count = Count(0, 0, 0)
                   /\ Cardinality({ i \in DOMAIN wk[w].out : wk[w].out[i] = "JSON" }) = 1
            /\ ~opts.JSONOutput =>
                   /\ wk[w].out[Len(wk[w].out)] = "REFLECTED: NO"
                   /\ Cardinality({ i \in DOMAIN wk[w].out :
                                      wk[w].out[i] \in { "REFLECTED: NO", "REFLECTED: YES",
                                                         "LISTS" } }) = 1

\* C21: in JSON mode a candidate was fetched and rendered, both without the
\* marker, and its record is written
C21_Witness ==
    \E w \in Workers :
        /\ opts.JSONOutput
        /\ Miss(w, "static")
        /\ Miss(w, "dom")
        /\ Len(wk[w].reqs) = 2
        /\ Len(wk[w].emitted) = 1
        /\ ~wk[w].emitted[1].Reflected

\* w's step ends the reflection check of its candidate with a failed fetch or a
\* failed render
DetectionFails(w) ==
    /\ \/ wk[w].pc = "fetch"
       \/ wk[w].pc \in { "dom_nav", "dom_read" } /\ wk[w].ret = "base"
    /\ wk'[w].pc = "next"
    /\ wk'[w].reqs # << >>
    /\ ~wk'[w].reqs[Len(wk'[w].reqs)].ok

\* the failing step leaves its candidate without record and without probe, keeps
\* the remaining candidates of the URL, and touches no other worker
Scoped(w) ==
    /\ wk'[w].emitted = << >>
    /\ \A i \in DOMAIN wk'[w].out : wk'[w].out[i] \notin { "JSON", "REFLECTED: YES",
                                                          "REFLECTED: NO", "LISTS" }
    /\ \A i \in DOMAIN wk'[w].reqs : wk'[w].reqs[i].kind # "probe"
    /\ wk'[w].baseURLs = wk[w].baseURLs
    /\ \A v \in Workers \ { w } : wk'[v] = wk[v]

\* the failing step leaves the browser to a worker that is inside a render
RenderOfOthersKept(w) ==
    (\E v \in Workers \ { w } : wk[v].pc = "dom_read") =>
        session'.browser = session.browser

\* C22: a failed fetch or render of the reflection check is scoped to its
\* candidate: no record and no probe for it, the remaining candidates of the URL
\* are still processed, and what other workers are processing is unaffected
C22_FailureScoped ==
    [][\A w \in Workers : DetectionFails(w) => (Scoped(w) /\ RenderOfOthersKept(w))]_vars

\* the part of it that concerns the failing worker's own control flow
C22_ControlFlowScoped == [][\A w \in Workers : DetectionFails(w) => Scoped(w)]_vars

\* the place of a probed character in the alphabet
Pos(c) == CHOOSE i \in DOMAIN Alphabet : Alphabet[i] = c

\* the shape of the requests issued so far for w's candidate
TraceShape(w) ==
    LET reqs == wk[w].reqs
    IN  /\ wk[w].pc = "fetch" => reqs = << >>
        /\ reqs # << >> => reqs[1].ch = "static" /\ reqs[1].kind = "base"
        /\ \A i \in 2 .. Len(reqs) :
             reqs[i].kind = "base" =>
                 i = 2 /\ reqs[i].ch = "dom" /\ reqs[1].ok /\ ~reqs[1].hit
        /\ \A i, j \in DOMAIN reqs :
             (i < j /\ reqs[i].kind = "probe") =>
                 /\ reqs[j].kind = "probe"
                 /\ Pos(reqs[i].char) < Pos(reqs[j].char)
        /\ \A i \in DOMAIN reqs :
             reqs[i].kind = "probe" => reqs[i].char \in { Alphabet[k] : k \in DOMAIN Alphabet }
        /\ wk[w].pc = "dom_read" => reqs # << >> /\ reqs[Len(reqs)].ch = "dom"

\* a step starts a new candidate, or answers the request in flight, or issues one
\* request when none is in flight; issued requests are never touched again
TraceStep(w) ==
    LET a == wk[w].reqs
        b == wk'[w].reqs
    IN  \/ b = << >>
        \/ b = a
        \/ /\ wk[w].pc = "dom_read"
           /\ Len(b) = Len(a)
           /\ \A i \in 1 .. Len(a) - 1 : b[i] = a[i]
        \/ /\ wk[w].pc # "dom_read"
           /\ Len(b) = Len(a) + 1
           /\ SubSeq(b, 1, Len(a)) = a

\* C23: the requests of one candidate form a sequential trace without retries: one
\* static fetch first, then at most one render, only after an answered fetch
\* without the marker, then at most one probe per alphabet character in alphabet
\* order, however many injection points the URL has; a request is issued only when
\* none is in flight, and none is repeated
C23_SequentialTrace ==
    /\ [](\A w \in Workers : TraceShape(w))
    /\ [][\A w \in Workers : TraceStep(w)]_vars

\* a candidate of the URL with two injection points, checked by fetch and render and
\* probed once for every character of the alphabet
C23_Witness ==
    \E w \in Workers :
        /\ wk[w].inputURL = URLTwoParams
        /\ wk[w].pc = "next"
        /\ Len(wk[w].reqs) = 2 + Len(Alphabet)
        /\ wk[w].reqs[2].kind = "base"
        /\ \A k \in DOMAIN Alphabet : wk[w].reqs[2 + k].char = Alphabet[k]

\* w's step starts Scan on a line
Handed(w) == wk'[w].pc = "scan" /\ wk'[w] # wk[w]

\* the steps of the hand-over between main and the workers
HandOver ==
    /\ \A w \in Workers :
         Handed(w) =>
             /\ wk[w].pc = "idle"
             /\ mainPc = "send" /\ mainPc' = "read"
             /\ wk'[w].inputURL = line
             /\ \A v \in Workers \ { w } : wk'[v] = wk[v]
    /\ (mainPc = "send" /\ mainPc' # "send") => \E w \in Workers : Handed(w)
    /\ (mainPc = "send" /\ mainPc' = "send") => line' = line /\ nread' = nread
    /\ nread' # nread =>
           mainPc = "read" /\ mainPc' = "send" /\ nread' = nread + 1 /\ line' \in input
    /\ (~closed /\ closed') => mainPc = "read"

\* C24: each line read is handed to exactly one worker exactly once: main reads the
\* next line, or closes the channel, only after a worker has taken the current one;
\* the line goes to one worker, which was idle (its previous Scan has returned),
\* and is then no longer on offer
C24_HandedOnce ==
    /\ [](closed => mainPc \in { "wait", "done" })
    /\ [][HandOver]_vars

\* two lines read, each handed to a worker of its own, both about to scan
C24_Witness ==
    /\ nread = MaxLines
    /\ mainPc = "read"
    /\ \A w \in 1 .. 2 : wk[w].pc = "scan" /\ wk[w].inputURL = URLPlaceholder

========================================================================
